---- MODULE Spec2Model ----
(***************************************************************************)
(* Model of demeter/demeter_io/reader.py: the land-class constraint check, *)
(* the time-step selector, the projection reader (read_gcam_file) and the  *)
(* base-layer reader (read_base).                                          *)
(*                                                                         *)
(* Python strings are sequences of one-character strings, so that lower(), *)
(* int() and the code-point ordering used by sorting are computed and not  *)
(* assumed.  A call is one action: it draws its arguments from bounded     *)
(* sets, and leaves the arguments, the outcome (a returned value or the    *)
(* exception raised) and the records sent to the logger in the state; for  *)
(* read_base also the source lines the call has begun, in order.           *)
(* The functions keep nothing between calls, so a behaviour is one call    *)
(* made from the idle state.                                               *)
(***************************************************************************)
EXTENDS Integers, Sequences, FiniteSets, TLC

VARIABLES call, args, ret, log, steps

vars == <<call, args, ret, log, steps>>

----------------------------------------------------------------------------
(* Bounds of the model *)

MaxClasses == 2

MaxCols == 3

MaxRows == 2

----------------------------------------------------------------------------
(* Python str: code points, lower(), ordering, int() *)

\* The printable ASCII characters at code points 32..126; the quote
\* characters and the backslash are held by name.

CodeTable ==
    << " ", "!", "QUOTE", "#", "$", "%", "&", "APOSTROPHE", "(", ")", "*", "+", ",", "-", ".", "/",
       "0", "1", "2", "3", "4", "5", "6", "7", "8", "9", ":", ";", "<", "=", ">", "?",
       "@", "A", "B", "C", "D", "E", "F", "G", "H", "I", "J", "K", "L", "M", "N", "O",
       "P", "Q", "R", "S", "T", "U", "V", "W", "X", "Y", "Z", "[", "BACKSLASH", "]", "^", "_",
       "BACKTICK", "a", "b", "c", "d", "e", "f", "g", "h", "i", "j", "k", "l", "m", "n", "o",
       "p", "q", "r", "s", "t", "u", "v", "w", "x", "y", "z", "{", "|", "}", "~" >>

OrdMap ==
    [c \in {CodeTable[i] : i \in DOMAIN CodeTable} |->
        31 + (CHOOSE i \in DOMAIN CodeTable : CodeTable[i] = c)] @@ <<>>

Ord(c) == OrdMap[c]

Chr(n) == CodeTable[n - 31]

LowerChar(c) == IF Ord(c) >= 65 /\ Ord(c) <= 90 THEN Chr(Ord(c) + 32) ELSE c

Lower(s) == [i \in DOMAIN s |-> LowerChar(s[i])]

\* a < b for str: the order of the code points at the first place they differ
RECURSIVE StrLess(_, _)
StrLess(a, b) ==
    IF b = <<>> THEN FALSE
    ELSE IF a = <<>> THEN TRUE
    ELSE IF Head(a) = Head(b) THEN StrLess(Tail(a), Tail(b))
    ELSE Ord(Head(a)) < Ord(Head(b))

\* The order of a set of ints, of strs and of region values, as sets of pairs
IntOrder(S) == {p \in S \X S : p[1] < p[2]}

StrOrder(S) == {p \in S \X S : StrLess(p[1], p[2])}

IsDigit(c) == Ord(c) >= 48 /\ Ord(c) <= 57

IsSpace(c) == c = " "

RECURSIVE LStrip(_)
LStrip(s) == IF s # <<>> /\ IsSpace(Head(s)) THEN LStrip(Tail(s)) ELSE s

RECURSIVE RStrip(_)
RStrip(s) ==
    IF s # <<>> /\ IsSpace(s[Len(s)]) THEN RStrip(SubSeq(s, 1, Len(s) - 1)) ELSE s

RECURSIVE DigitsValue(_)
DigitsValue(d) ==
    IF d = <<>> THEN 0
    ELSE 10 * DigitsValue(SubSeq(d, 1, Len(d) - 1)) + (Ord(d[Len(d)]) - 48)

\* The interpreters the code runs on, as far as int(str) tells them apart:
\* 2.7 allows blanks between the sign and the digits, 3.6 and later allow
\* single underscores between digits, 3.5 allows neither.
Interpreters == {"py2.7", "py3.5", "py3.6+"}

RECURSIVE DropUnderscores(_)
DropUnderscores(d) ==
    IF d = <<>> THEN <<>>
    ELSE IF Head(d) = "_" THEN DropUnderscores(Tail(d))
    ELSE <<Head(d)>> \o DropUnderscores(Tail(d))

\* A non-empty run of decimal digits
IsDigits(d) == d # <<>> /\ \A i \in DOMAIN d : IsDigit(d[i])

\* Digits with single underscores between them: digit (["_"] digit)*
IsGroupedDigits(d) ==
    /\ d # <<>>
    /\ IsDigit(d[1]) /\ IsDigit(d[Len(d)])
    /\ \A i \in DOMAIN d : IsDigit(d[i]) \/ d[i] = "_"
    /\ \A i \in 1..(Len(d) - 1) : ~(d[i] = "_" /\ d[i + 1] = "_")

\* int(str) of the interpreter py: surrounding blanks are ignored, one sign is
\* allowed, and the rest must be decimal digits as the interpreter writes
\* them; anything else is a ValueError.
ParseInt(py, s) ==
    LET t == RStrip(LStrip(s))
        signed == t # <<>> /\ Head(t) \in {"+", "-"}
        rest == IF signed THEN Tail(t) ELSE t
        body == IF py = "py2.7" THEN LStrip(rest) ELSE rest
        d == IF py = "py3.6+" /\ IsGroupedDigits(body) THEN DropUnderscores(body) ELSE body
    IN  IF IsDigits(d)
        THEN [ok |-> TRUE,
              v |-> IF signed /\ Head(t) = "-" THEN 0 - DigitsValue(d) ELSE DigitsValue(d)]
        ELSE [ok |-> FALSE, v |-> 0]

----------------------------------------------------------------------------
(* numpy / pandas helpers *)

SeqSet(s) == {s[i] : i \in DOMAIN s}

\* The elements of S in ascending order: an element stands after as many
\* places as there are elements below it.
SortSet(S, lt) ==
    [i \in 1..Cardinality(S) |->
        CHOOSE x \in S : Cardinality({y \in S : <<y, x>> \in lt}) = i - 1]

\* np.unique: the distinct values, ascending
NpUnique(s) == SortSet(SeqSet(s), IntOrder(SeqSet(s)))

\* Series.unique: the distinct values in order of first appearance
RECURSIVE SeriesUnique(_)
SeriesUnique(s) ==
    IF s = <<>> THEN <<>>
    ELSE LET r == SeriesUnique(SubSeq(s, 1, Len(s) - 1))
             x == s[Len(s)]
         IN  IF x \in SeqSet(r) THEN r ELSE Append(r, x)

\* np.setdiff1d(ar1, ar2): the distinct values of ar1 not in ar2, ascending
SetDiff1d(ar1, ar2) ==
    SortSet(SeqSet(ar1) \ SeqSet(ar2), StrOrder(SeqSet(ar1) \ SeqSet(ar2)))

\* ndarray.sort(): ascending, duplicates kept
NpSort(s, lt) ==
    [i \in DOMAIN s |->
        CHOOSE x \in SeqSet(s) :
            /\ Cardinality({j \in DOMAIN s : <<s[j], x>> \in lt}) < i
            /\ i <= Cardinality({j \in DOMAIN s : <<s[j], x>> \in lt \/ s[j] = x})]

Warning(m, a) == [level |-> "warning", msg |-> m, arg |-> a]

Info(m, a) == [level |-> "info", msg |-> m, arg |-> a]

Error(m, a) == [level |-> "error", msg |-> m, arg |-> a]

Returned(v) == [status |-> "returned", value |-> v]

\* An exception that leaves the call, with the line that raises it
Raised(e, line) == [status |-> "raised", exc |-> e, line |-> line]

----------------------------------------------------------------------------
(* _check_constraints *)

MsgAllocNotProjected == "Land classes in allocation file but not in projected model data"

MsgProjectedNotAlloc == "Land classes in projected model but not in allocation file"

\* _check_constraints without the lower-casing of lines 130-131.
check_constraints_case_sensitive(allocate, actual) ==
    LET act_extra == SetDiff1d(allocate, actual)
        alloc_extra == SetDiff1d(actual, allocate)
    IN  (IF Len(alloc_extra) > 0
         THEN <<Warning(MsgAllocNotProjected, alloc_extra)>> ELSE <<>>)
        \o (IF Len(act_extra) > 0
            THEN <<Warning(MsgProjectedNotAlloc, act_extra)>> ELSE <<>>)

\* The records _check_constraints sends to the logger, in order.
check_constraints(allocate, actual) ==
    LET act == [i \in DOMAIN actual |-> Lower(actual[i])]
        alloc == [i \in DOMAIN allocate |-> Lower(allocate[i])]
        act_extra == SetDiff1d(alloc, act)
        alloc_extra == SetDiff1d(act, alloc)
        l_act == Len(act_extra)
        l_alloc == Len(alloc_extra)
    IN  IF l_alloc > 0 /\ l_act > 0
        THEN <<Warning(MsgAllocNotProjected, alloc_extra),
               Warning(MsgProjectedNotAlloc, act_extra)>>
        ELSE IF l_alloc > 0 /\ l_act = 0
        THEN <<Warning(MsgAllocNotProjected, alloc_extra)>>
        ELSE IF l_alloc = 0 /\ l_act > 0
        THEN <<Warning(MsgProjectedNotAlloc, act_extra)>>
        ELSE <<>>

----------------------------------------------------------------------------
(* _get_steps *)

\* _get_steps with l.insert(0, y) in place of l.append(y).
RECURSIVE get_steps_prepend(_, _, _, _)
get_steps_prepend(py, columns, start_step, end_step) ==
    IF columns = <<>> THEN <<>>
    ELSE LET l == get_steps_prepend(py, SubSeq(columns, 1, Len(columns) - 1),
                                    start_step, end_step)
             y == ParseInt(py, columns[Len(columns)])
         IN  IF y.ok /\ start_step <= y.v /\ y.v <= end_step
             THEN <<y.v>> \o l
             ELSE l

\* The list _get_steps returns under the interpreter py; columns are the
\* labels of df.columns.
RECURSIVE get_steps(_, _, _, _)
get_steps(py, columns, start_step, end_step) ==
    IF columns = <<>> THEN <<>>
    ELSE LET l == get_steps(py, SubSeq(columns, 1, Len(columns) - 1), start_step, end_step)
             y == ParseInt(py, columns[Len(columns)])
         IN  IF y.ok /\ start_step <= y.v /\ y.v <= end_step
             THEN Append(l, y.v)
             ELSE l

----------------------------------------------------------------------------
(* read_gcam_file *)

\* A value of the region column, or a key of region_dict: a Python int or str.
IntV(n) == [int |-> n]

StrV(s) == [str |-> s]

IsInt(v) == "int" \in DOMAIN v

RECURSIVE NatToStr(_)
NatToStr(n) ==
    IF n < 10 THEN <<Chr(48 + n)>> ELSE Append(NatToStr(n \div 10), Chr(48 + (n % 10)))

\* str(int)
IntToStr(n) == IF n < 0 THEN <<"-">> \o NatToStr(0 - n) ELSE NatToStr(n)

PyStr(v) == IF IsInt(v) THEN IntToStr(v.int) ELSE v.str

Taiwan == <<"T", "a", "i", "w", "a", "n">>

TaiwanNumber == 30

\* The region Taiwan is folded into (line 350)
ParentNumber == 11

ScenarioColumn == <<"s", "c", "e", "n", "a", "r", "i", "o">>

Column(rows, name) == [i \in DOMAIN rows |-> rows[i][name]]

\* gdf['scenario'] = scenario: the column is added at the end unless the table has it
ColumnsWithScenario(columns) ==
    IF ScenarioColumn \in SeqSet(columns) THEN columns ELSE Append(columns, ScenarioColumn)

\* target_years of line 215
TargetYears(user_years) == [i \in DOMAIN user_years |-> IntToStr(user_years[i])]

\* gdf[target_years].as_matrix() * area_factor; year_labels are the labels of
\* the entries of a row's areas
GcamLuData(rows, year_labels, target_years, area_factor) ==
    [r \in DOMAIN rows |->
        [k \in DOMAIN target_years |->
            LET c == CHOOSE j \in DOMAIN year_labels : year_labels[j] = target_years[k]
            IN  rows[r].areas[c] * area_factor]]

\* lu of line 222 with the sequence starting at 0
MetricLookupFromZero(metric_ids) ==
    LET sorted == NpUnique(metric_ids)
    IN  [m \in SeqSet(metric_ids) |-> (CHOOSE ix \in DOMAIN sorted : sorted[ix] = m) - 1]

\* lu: metric id -> 1-based place among the distinct ids in ascending order
MetricLookup(metric_ids) ==
    LET sorted == NpUnique(metric_ids)
    IN  [m \in SeqSet(metric_ids) |-> CHOOSE ix \in DOMAIN sorted : sorted[ix] = m]

GcamMetric(metric_ids) ==
    LET lu == MetricLookup(metric_ids)
    IN  [i \in DOMAIN metric_ids |-> lu[metric_ids[i]]]

\* the test of line 229 with the value compared with the str '1'
SingleRegionShortcutStr(regions) ==
    LET ck_reg == SeriesUnique(regions)
    IN  Len(ck_reg) = 1 /\ ~IsInt(ck_reg[1]) /\ ck_reg[1].str = <<"1">>

\* (len(ck_reg)) == 1 and (ck_reg[0] == 1)
SingleRegionShortcut(regions) ==
    LET ck_reg == SeriesUnique(regions)
    IN  Len(ck_reg) = 1 /\ IsInt(ck_reg[1]) /\ ck_reg[1].int = 1

\* The exception of int(region_dict[x]), or "none"
RegionLookupError(py, x, region_dict) ==
    IF x \notin DOMAIN region_dict THEN "KeyError"
    ELSE IF ~ParseInt(py, region_dict[x]).ok THEN "ValueError"
    ELSE "none"

\* The first exception raised while the region numbers are assigned, or "none"
RegionNumberError(py, regions, region_dict) ==
    IF SingleRegionShortcut(regions) THEN "none"
    ELSE IF \A i \in DOMAIN regions : RegionLookupError(py, regions[i], region_dict) = "none"
    THEN "none"
    ELSE LET i == CHOOSE k \in DOMAIN regions :
                      /\ RegionLookupError(py, regions[k], region_dict) # "none"
                      /\ \A j \in 1..(k - 1) :
                             RegionLookupError(py, regions[j], region_dict) = "none"
         IN  RegionLookupError(py, regions[i], region_dict)

\* gdf['gcam_regionnumber'], where no exception is raised
GcamRegionNumber(py, regions, region_dict) ==
    IF SingleRegionShortcut(regions)
    THEN [i \in DOMAIN regions |-> 1]
    ELSE [i \in DOMAIN regions |-> ParseInt(py, region_dict[regions[i]]).v]

\* np.array(list): ints stay ints unless a str is among them, then all become str
NpArray(l) ==
    IF \A i \in DOMAIN l : IsInt(l[i]) THEN l ELSE [i \in DOMAIN l |-> StrV(PyStr(l[i]))]

RegionLess(a, b) ==
    IF IsInt(a) /\ IsInt(b) THEN a.int < b.int ELSE StrLess(PyStr(a), PyStr(b))

RegionOrder(S) == {p \in S \X S : RegionLess(p[1], p[2])}

\* allreg: lines 247, 255-256, 260, 262
AllReg(regions, agg_level) ==
    LET l_allreg == SeriesUnique(regions)
        l == IF agg_level = 2 THEN Append(l_allreg, StrV(Taiwan)) ELSE l_allreg
    IN  NpSort(NpArray(l), RegionOrder(SeqSet(NpArray(l))))

\* allregnumber: lines 250, 257, 261, 263
AllRegNumber(gcam_regionnumber, agg_level) ==
    LET l_allregnumber == SeriesUnique(gcam_regionnumber)
        l == IF agg_level = 2 THEN Append(l_allregnumber, TaiwanNumber) ELSE l_allregnumber
    IN  NpSort(l, IntOrder(SeqSet(l)))

\* groupby('gcam_regionnumber')['gcam_metric'], each group through np.unique,
\* the groups in ascending order of the region number
GroupedMetrics(gcam_regionnumber, gcam_metric) ==
    LET keys == NpUnique(gcam_regionnumber)
    IN  [k \in DOMAIN keys |->
            NpUnique(SelectSeq(gcam_metric,
                               LAMBDA m : \E j \in DOMAIN gcam_metric :
                                   gcam_metric[j] = m /\ gcam_regionnumber[j] = keys[k]))]

\* list.insert(index, x), index counted from 0: a negative index counts from
\* the end, and an index outside the list is clipped to its ends
ListInsert(l, index, x) ==
    LET i0 == IF index < 0 THEN index + Len(l) ELSE index
        i == IF i0 < 0 THEN 0 ELSE IF i0 > Len(l) THEN Len(l) ELSE i0
    IN  SubSeq(l, 1, i) \o <<x>> \o SubSeq(l, i + 1, Len(l))

\* np.where(allreg == 'Taiwan')[0][0] - 1; the places of allreg count from 1 here
TaiwanIdx(allreg) ==
    (CHOOSE k \in DOMAIN allreg :
        /\ allreg[k] = StrV(Taiwan)
        /\ \A j \in 1..(k - 1) : allreg[j] # StrV(Taiwan)) - 1 - 1

\* allregaez: lines 267-268 and 275-277
AllRegAez(gcam_regionnumber, gcam_metric, allreg, agg_level) ==
    LET grouped == GroupedMetrics(gcam_regionnumber, gcam_metric)
    IN  IF agg_level = 2 THEN ListInsert(grouped, TaiwanIdx(allreg), <<>>) ELSE grouped

MsgRegions == "Number of regions from projected file"

MsgMetrics == "Number of basins or AEZs from projected file"

\* Lines 234-280: the arrays and lists returned, and the two counts logged
GcamReturn(gdf, user_years, gcam_metric, gcam_regionnumber, allreg, allregnumber, allmetric, agg_level, area_factor, log1) ==
    [ret |-> Returned(
         [user_years |-> user_years,
          gcam_ludata |-> GcamLuData(gdf.rows, gdf.year_labels, TargetYears(user_years),
                                     area_factor),
          gcam_metric |-> gcam_metric,
          gcam_landname |-> [i \in DOMAIN gdf.rows |-> Lower(gdf.rows[i].landclass)],
          gcam_regionnumber |-> gcam_regionnumber,
          allreg |-> allreg,
          allregnumber |-> allregnumber,
          allregaez |-> AllRegAez(gcam_regionnumber, gcam_metric, allreg, agg_level),
          allmetric |-> allmetric,
          metric_id_array |-> Column(gdf.rows, "metric_id")]),
     log |-> log1 \o <<Info(MsgRegions, Len(allregnumber)),
                       Info(MsgMetrics, Len(allmetric))>>]

\* Lines 218-263, once the year columns are selected
GcamRegions(gdf, user_years, gcam_metric, gcam_regionnumber, regions, agg_level, area_factor, log1) ==
    GcamReturn(gdf, user_years, gcam_metric, gcam_regionnumber,
               AllReg(regions, agg_level), AllRegNumber(gcam_regionnumber, agg_level),
               NpUnique(gcam_metric), agg_level, area_factor, log1)

\* Lines 211-216: the year columns are selected by label, a KeyError if the
\* table has no column with the label str(int(label))
GcamYears(py, gdf, user_years, region_dict, agg_level, area_factor, log1) ==
    IF \E k \in DOMAIN user_years : IntToStr(user_years[k]) \notin SeqSet(gdf.columns)
    THEN [ret |-> Raised("KeyError", 216), log |-> log1]
    ELSE IF RegionNumberError(py, Column(gdf.rows, "region"), region_dict) # "none"
    THEN [ret |-> Raised(RegionNumberError(py, Column(gdf.rows, "region"), region_dict), 232),
          log |-> log1]
    ELSE GcamRegions(gdf, user_years, GcamMetric(Column(gdf.rows, "metric_id")),
                     GcamRegionNumber(py, Column(gdf.rows, "region"), region_dict),
                     Column(gdf.rows, "region"), agg_level, area_factor, log1)

\* The outcome of read_gcam_file under the interpreter py and the records it
\* sends to the logger.  gdf is the table read from the file: its column
\* labels, the labels of the year columns among them, and its rows.
read_gcam_file(py, gdf, gcam_landclasses, start_yr, end_yr, region_dict, agg_level, area_factor) ==
    GcamYears(py, gdf, get_steps(py, ColumnsWithScenario(gdf.columns), start_yr, end_yr),
              region_dict, agg_level, area_factor,
              check_constraints(gcam_landclasses, Column(gdf.rows, "landclass")))

----------------------------------------------------------------------------
(* read_base *)

\* df.columns = [i.lower() for i in df.columns]
LowerColumns(df) == [df EXCEPT !.columns = [i \in DOMAIN @ |-> Lower(@[i])]]

HasColumn(df, name) == name \in SeqSet(df.columns)

\* df[name]: the values of the column with this label
GetColumn(df, name) == df.data[CHOOSE i \in DOMAIN df.columns : df.columns[i] = name]

\* df[[names]].as_matrix(): one row per cell, one entry per name
GetMatrix(df, names) ==
    [r \in 1..df.nrows |-> [k \in DOMAIN names |-> GetColumn(df, names[k])[r]]]

RECURSIVE SumSeq(_)
SumSeq(s) == IF s = <<>> THEN 0 ELSE Head(s) + SumSeq(Tail(s))

\* The real numbers of lines 353-360 are kept exact: a non-negative rational
\* is num / den in lowest terms, and a record [cos_deg, times] is times
\* multiplied by the cosine of cos_deg degrees.  The rounding of the floating
\* point operations is not modelled.
RECURSIVE GCD(_, _)
GCD(a, b) == IF b = 0 THEN a ELSE GCD(b, a % b)

Rat(n, d) == [num |-> n \div GCD(n, d), den |-> d \div GCD(n, d)]

RatMul(a, b) ==
    LET x == Rat(a.num, b.den)
        y == Rat(b.num, a.den)
    IN  [num |-> x.num * y.num, den |-> x.den * y.den]

\* a / b, b above 0
RatDiv(a, b) == RatMul(a, [num |-> b.den, den |-> b.num])

\* np.cos(np.radians(lat)) * x
CosTimes(lat, x) == [cos_deg |-> lat, times |-> x]

\* 111.32 * 110.57 of line 353
EquatorKm2 == Rat(123086524, 10000)

C_water == <<"w", "a", "t", "e", "r">>

C_latcoord == <<"l", "a", "t", "c", "o", "o", "r", "d">>

C_loncoord == <<"l", "o", "n", "c", "o", "o", "r", "d">>

C_latitude == <<"l", "a", "t", "i", "t", "u", "d", "e">>

C_longitude == <<"l", "o", "n", "g", "i", "t", "u", "d", "e">>

C_regaez == <<"r", "e", "g", "a", "e", "z">>

C_region_id == <<"r", "e", "g", "i", "o", "n", "_", "i", "d">>

C_id_suffix == <<"_", "i", "d">>

C_gcam == <<"g", "c", "a", "m">>

MsgMissingFields ==
    "Fields are listed in the spatial allocation file that do not exist in the base layer."

MsgNoWater ==
    "Water not represented in base layer.  Representing water as 0 percent of grid."

\* The frame of a call of read_base: how far it has run (steps, the lines
\* begun), whether an exception has left it, the records logged, the local
\* variables bound so far and their values.
StartFrame ==
    [status |-> "run", exc |-> "none", line |-> 0, log |-> <<>>, steps |-> <<>>,
     bound |-> {}, spat_ludata |-> <<>>, spat_coords |-> <<>>,
     spat_metric_region |-> <<>>, spat_grid_id |-> <<>>, spat_water |-> <<>>,
     spat_region |-> <<>>, spat_metric |-> <<>>, ngrids |-> 0,
     cellarea |-> <<>>, celltrunk |-> <<>>]

Raise(f, e, line) == [f EXCEPT !.status = "raised", !.exc = e, !.line = line]

Begin(f, line) == [f EXCEPT !.steps = Append(@, line)]

Bind(f, name) == [f EXCEPT !.bound = @ \cup {name}]

\* Lines 299-304: the land-cover columns; a KeyError is logged and not raised again
StepLandCover(f, df, spat_landclasses) ==
    IF f.status # "run" THEN f
    ELSE IF \A k \in DOMAIN spat_landclasses : HasColumn(df, spat_landclasses[k])
    THEN [Bind(Begin(f, 301), "spat_ludata") EXCEPT
              !.spat_ludata = GetMatrix(df, spat_landclasses)]
    ELSE [Begin(f, 301) EXCEPT
              !.log = @ \o <<Error(MsgMissingFields, <<>>),
                             Error("KeyError",
                                   SelectSeq(spat_landclasses,
                                             LAMBDA n : ~HasColumn(df, n)))>>]

\* Lines 306-310: the coordinates under one of two pairs of labels
StepCoords(f, df) ==
    IF f.status # "run" THEN f
    ELSE IF HasColumn(df, C_latcoord) /\ HasColumn(df, C_loncoord)
    THEN [Bind(Begin(f, 308), "spat_coords") EXCEPT
              !.spat_coords = GetMatrix(df, <<C_latcoord, C_loncoord>>)]
    ELSE IF HasColumn(df, C_latitude) /\ HasColumn(df, C_longitude)
    THEN [Bind(Begin(Begin(f, 308), 310), "spat_coords") EXCEPT
              !.spat_coords = GetMatrix(df, <<C_latitude, C_longitude>>)]
    ELSE Raise(Begin(Begin(f, 308), 310), "KeyError", 310)

\* Lines 312-316: the combined region and metric column, None without it
StepRegAez(f, df) ==
    IF f.status # "run" THEN f
    ELSE IF HasColumn(df, C_regaez)
    THEN [Bind(Begin(f, 314), "spat_metric_region") EXCEPT
              !.spat_metric_region = [none |-> FALSE, values |-> GetColumn(df, C_regaez)]]
    ELSE [Bind(Begin(f, 314), "spat_metric_region") EXCEPT
              !.spat_metric_region = [none |-> TRUE, values |-> <<>>]]

\* Lines 318-319: the grid ids, under the label c.pkey as it is configured
StepGridId(f, df, c) ==
    IF f.status # "run" THEN f
    ELSE IF HasColumn(df, c.pkey)
    THEN [Bind(Begin(f, 319), "spat_grid_id") EXCEPT !.spat_grid_id = GetColumn(df, c.pkey)]
    ELSE Raise(Begin(f, 319), "KeyError", 319)

\* Lines 321-326 with np.ones_like in place of np.zeros_like
StepWaterOnes(f, df) ==
    IF f.status # "run" THEN f
    ELSE IF HasColumn(df, C_water)
    THEN [Bind(Begin(f, 323), "spat_water") EXCEPT !.spat_water = GetColumn(df, C_water)]
    ELSE [Bind(Begin(Begin(f, 323), 325), "spat_water") EXCEPT
              !.log = Append(@, Warning(MsgNoWater, <<>>)),
              !.spat_water = [i \in DOMAIN f.spat_grid_id |-> 1]]

\* Lines 321-326: the water column, or a warning and zeros in the shape of the grid ids
StepWater(f, df) ==
    IF f.status # "run" THEN f
    ELSE IF HasColumn(df, C_water)
    THEN [Bind(Begin(f, 323), "spat_water") EXCEPT !.spat_water = GetColumn(df, C_water)]
    ELSE [Bind(Begin(Begin(f, 323), 325), "spat_water") EXCEPT
              !.log = Append(@, Warning(MsgNoWater, <<>>)),
              !.spat_water = [i \in DOMAIN f.spat_grid_id |-> 0]]

MetricColumn(c) == Lower(c.metric) \o C_id_suffix

\* Lines 337 and 343: the metric column, labelled by the lower-cased metric name
StepMetric(f, df, c, line) ==
    IF f.status # "run" THEN f
    ELSE IF HasColumn(df, MetricColumn(c))
    THEN [Bind(Begin(f, line), "spat_metric") EXCEPT
              !.spat_metric = GetColumn(df, MetricColumn(c))]
    ELSE Raise(Begin(f, line), "KeyError", line)

\* Lines 328-343: region and metric by aggregation level; no level but 1 and 2 binds them
StepRegionMetric(f, df, c) ==
    IF f.status # "run" THEN f
    ELSE IF c.agg_level = 2
    THEN IF HasColumn(df, C_region_id)
         THEN StepMetric([Bind(Begin(f, 336), "spat_region") EXCEPT
                              !.spat_region = GetColumn(df, C_region_id)], df, c, 337)
         ELSE Raise(Begin(f, 336), "KeyError", 336)
    ELSE IF c.agg_level = 1
    THEN IF HasColumn(df, C_region_id)
         THEN StepMetric([Bind(Begin(Begin(f, 341), 342), "spat_region") EXCEPT
                              !.spat_region = [i \in 1..df.nrows |-> 1]], df, c, 343)
         ELSE Raise(Begin(f, 341), "KeyError", 341)
    ELSE f

\* Line 346
StepNGrids(f, df) ==
    IF f.status # "run" THEN f ELSE [Bind(Begin(f, 346), "ngrids") EXCEPT !.ngrids = df.nrows]

\* Lines 348-350 with the model name compared as it is configured
StepRemapCaseSensitive(f, c) ==
    IF f.status # "run" THEN f
    ELSE IF c.model = C_gcam /\ c.agg_level = 2
    THEN [Begin(f, 350) EXCEPT
              !.spat_region = [i \in DOMAIN @ |-> IF @[i] = TaiwanNumber THEN ParentNumber ELSE @[i]]]
    ELSE f

\* Lines 348-350: region 30 becomes region 11 for the model gcam at level 2
StepRemap(f, c) ==
    IF f.status # "run" THEN f
    ELSE IF Lower(c.model) = C_gcam /\ c.agg_level = 2
    THEN [Begin(f, 350) EXCEPT
              !.spat_region = [i \in DOMAIN @ |-> IF @[i] = TaiwanNumber THEN ParentNumber ELSE @[i]]]
    ELSE f

\* Line 353: the area of each cell from its latitude, spat_coords[:, 0]
CellArea(spat_coords, resin) ==
    [i \in DOMAIN spat_coords |->
        CosTimes(spat_coords[i][1], RatMul(EquatorKm2, RatMul(resin, resin)))]

\* Line 357: the part of each cell the land cover and the water fill
CellTrunk(spat_ludata, spat_water, resin) ==
    [i \in DOMAIN spat_ludata |->
        RatDiv(Rat(SumSeq(spat_ludata[i]) + spat_water[i], 1), RatMul(resin, resin))]

\* Line 360: each land-cover value over resin ** 2, times the area of its cell
ScaledLuData(spat_ludata, cellarea, resin) ==
    [i \in DOMAIN spat_ludata |->
        [k \in DOMAIN spat_ludata[i] |->
            CosTimes(cellarea[i].cos_deg,
                     RatMul(RatDiv(Rat(spat_ludata[i][k], 1), RatMul(resin, resin)),
                            cellarea[i].times))]]

\* Lines 352-360.  cellarea needs only spat_coords, which is bound here; line
\* 357 is the first to read spat_ludata, and line 360 binds it anew.
StepAreas(f, c) ==
    IF f.status # "run" THEN f
    ELSE IF "spat_ludata" \notin f.bound
    THEN Raise([Begin(Begin(f, 353), 357) EXCEPT
                    !.cellarea = CellArea(f.spat_coords, c.resin)],
               "UnboundLocalError", 357)
    ELSE [Begin(Begin(Begin(f, 353), 357), 360) EXCEPT
              !.cellarea = CellArea(f.spat_coords, c.resin),
              !.celltrunk = CellTrunk(f.spat_ludata, f.spat_water, c.resin),
              !.spat_ludata = ScaledLuData(f.spat_ludata,
                                           CellArea(f.spat_coords, c.resin), c.resin)]

\* Lines 362-363: the list returned reads every local variable
StepReturn(f) ==
    IF f.status # "run" THEN f
    ELSE IF "spat_metric" \notin f.bound \/ "spat_region" \notin f.bound
    THEN Raise(Begin(f, 362), "UnboundLocalError", 362)
    ELSE [Begin(f, 362) EXCEPT !.status = "returned"]

\* The frame read_base ends with
read_base(df0, c, spat_landclasses) ==
    StepReturn(StepAreas(StepRemap(StepNGrids(
        StepRegionMetric(
            StepWater(
                StepGridId(
                    StepRegAez(
                        StepCoords(
                            StepLandCover(StartFrame, LowerColumns(df0), spat_landclasses),
                            LowerColumns(df0)),
                        LowerColumns(df0)),
                    LowerColumns(df0), c),
                LowerColumns(df0)),
            LowerColumns(df0), c),
        LowerColumns(df0)), c), c))

\* What the caller has of the frame: the list returned, or the exception
BaseOutcome(f) ==
    IF f.status = "returned"
    THEN Returned([spat_ludata |-> f.spat_ludata, spat_water |-> f.spat_water,
                   spat_coords |-> f.spat_coords,
                   spat_metric_region |-> f.spat_metric_region,
                   spat_grid_id |-> f.spat_grid_id, spat_metric |-> f.spat_metric,
                   spat_region |-> f.spat_region, ngrids |-> f.ngrids,
                   cellarea |-> f.cellarea, celltrunk |-> f.celltrunk])
    ELSE Raised(f.exc, f.line)

----------------------------------------------------------------------------
(* Inputs *)

SeqsUpTo(S, n) == UNION {[1..k -> S] : k \in 0..n}

LandClassNames ==
    { <<"F", "o", "r", "e", "s", "t">>, <<"f", "o", "r", "e", "s", "t">>,
      <<"c", "r", "o", "p">>, <<"U", "r", "b", "a", "n">> }

\* Labels of a header: years, labels that are no integers, and labels that
\* only some interpreters read as integers.
ColumnLabels ==
    { <<"a">>, <<"1", "9", "9", "9">>, <<"2", "0", "0", "5">>,
      <<"2", "0", "1", "0">>, <<" ", "2", "0", "0", "0">>, <<"-", "1">>,
      <<"2", "_", "0", "0", "5">>, <<"-", " ", "1">> }

StartSteps == {-1, 2010}

EndSteps == {2005, 2010}

China == <<"C", "h", "i", "n", "a">>

USA == <<"U", "S", "A">>

RegionNames == {China, Taiwan, USA}

MetricIds == {3, 5, 7}

\* The land-class column: one class throughout, or two classes in turn.
LandClassColumns(n) ==
    { [i \in 1..n |-> <<"F", "o", "r", "e", "s", "t">>],
      [i \in 1..n |-> IF i % 2 = 1 THEN <<"F", "o", "r", "e", "s", "t">>
                                   ELSE <<"c", "r", "o", "p">>] }

AreaRows == {<<2, 5>>}

BaseColumns ==
    << <<"r", "e", "g", "i", "o", "n">>, <<"l", "a", "n", "d", "c", "l", "a", "s", "s">>,
       <<"m", "e", "t", "r", "i", "c", "_", "i", "d">> >>

YearLabels ==
    { << <<"2", "0", "1", "0">>, <<"2", "0", "0", "5">> >>,
      << <<" ", "2", "0", "0", "5">>, <<"2", "0", "1", "0">> >> }

\* The region column of a table read from a file holds names, or it is the
\* integer 1 throughout.
RegionColumns(n) ==
    [1..n -> {StrV(r) : r \in RegionNames}] \cup {[i \in 1..n |-> IntV(1)]}

ProjectionRows(n) ==
    {[i \in 1..n |-> [region |-> reg[i], metric_id |-> met[i],
                      landclass |-> lc[i], areas |-> ar[i]]] :
        reg \in RegionColumns(n), met \in [1..n -> MetricIds],
        lc \in LandClassColumns(n), ar \in [1..n -> AreaRows]}

ProjectionTables ==
    {[columns |-> BaseColumns \o y, year_labels |-> y, rows |-> r] :
        y \in YearLabels, r \in UNION {ProjectionRows(n) : n \in 1..MaxRows}}

ReferenceDict ==
    [x \in {StrV(China), StrV(Taiwan), StrV(USA)} |->
        IF x = StrV(China) THEN <<"1", "1">>
        ELSE IF x = StrV(Taiwan) THEN <<"3", "0">> ELSE <<"1">>]

PermutedDict ==
    [x \in {IntV(1), StrV(China), StrV(Taiwan), StrV(USA)} |->
        IF x = IntV(1) THEN <<"7">>
        ELSE IF x = StrV(China) THEN <<"1">>
        ELSE IF x = StrV(Taiwan) THEN <<"3", "0">> ELSE <<"1", "1">>]

PartialDict == [x \in {StrV(China)} |-> <<"1", "1">>]

EmptyDict == [x \in {} |-> <<>>]

RegionDicts == {ReferenceDict, PermutedDict, PartialDict, EmptyDict}

AllocationClasses ==
    { << <<"f", "o", "r", "e", "s", "t">>, <<"c", "r", "o", "p">> >>,
      << <<"F", "o", "r", "e", "s", "t">> >> }

AggLevels == {1, 2}

StartYears == {2000}

EndYears == {2010}

DefaultAreaFactor == 1000

MaxCells == 2

RegionIds == {5, 11, 30}

CoordLabels == {"latcoord", "Latitude", "none"}

IdColumns == {"both", "no region_id", "no metric id"}

Forest == <<"f", "o", "r", "e", "s", "t">>

Crop == <<"c", "r", "o", "p">>

\* The columns of a base layer, as the file labels them, each with its values
BaseColumnsOf(n, coords, regaez, pkey, water, ids, region_id) ==
    <<[label |-> <<"F", "o", "r", "e", "s", "t">>, values |-> [i \in 1..n |-> 4]]>>
    \o (IF coords = "latcoord"
        THEN <<[label |-> C_latcoord, values |-> [i \in 1..n |-> 30 * (i - 1)]],
               [label |-> C_loncoord, values |-> [i \in 1..n |-> 100 + i]]>>
        ELSE IF coords = "Latitude"
        THEN <<[label |-> <<"L", "a", "t", "i", "t", "u", "d", "e">>, values |-> [i \in 1..n |-> 30 * (i - 1)]],
               [label |-> <<"L", "o", "n", "g", "i", "t", "u", "d", "e">>, values |-> [i \in 1..n |-> 100 + i]]>>
        ELSE <<>>)
    \o (IF regaez THEN <<[label |-> C_regaez, values |-> [i \in 1..n |-> 1107]]>> ELSE <<>>)
    \o (IF pkey THEN <<[label |-> <<"f", "i", "d">>, values |-> [i \in 1..n |-> i]]>> ELSE <<>>)
    \o (IF water THEN <<[label |-> <<"W", "a", "t", "e", "r">>, values |-> [i \in 1..n |-> i]]>> ELSE <<>>)
    \o (IF ids # "no region_id"
        THEN <<[label |-> C_region_id, values |-> region_id]>> ELSE <<>>)
    \o (IF ids # "no metric id"
        THEN <<[label |-> <<"b", "a", "s", "i", "n", "_", "i", "d">>, values |-> [i \in 1..n |-> 7]]>> ELSE <<>>)

BaseTable(n, cols) ==
    [nrows |-> n,
     columns |-> [k \in DOMAIN cols |-> cols[k].label],
     data |-> [k \in DOMAIN cols |-> cols[k].values]]

BaseTables ==
    UNION {{BaseTable(n, BaseColumnsOf(n, coords, regaez, pkey, water, ids, region_id)) :
               coords \in CoordLabels, regaez \in BOOLEAN, pkey \in BOOLEAN,
               water \in BOOLEAN, ids \in IdColumns, region_id \in [1..n -> RegionIds]} :
           n \in 1..MaxCells}

ModelNames == {C_gcam, <<"G", "C", "A", "M">>, <<"i", "m", "a", "g", "e">>}

BaseAggLevels == {1, 2, 3}

\* c.resin, the resolution in degrees: a half and a quarter
Resolutions == {Rat(1, 2), Rat(1, 4)}

BaseConfigs ==
    [agg_level : BaseAggLevels, model : ModelNames, metric : {<<"B", "a", "s", "i", "n">>},
     pkey : {<<"f", "i", "d">>}, resin : Resolutions]

SpatialLandClasses == {<<Forest>>, <<Forest, Crop>>}

----------------------------------------------------------------------------
(* The calls *)

Init ==
    /\ call = "none"
    /\ args = <<>>
    /\ ret = Returned(<<>>)
    /\ log = <<>>
    /\ steps = <<>>

Call_check_constraints ==
    /\ call = "none"
    /\ \E allocate \in SeqsUpTo(LandClassNames, MaxClasses),
          actual \in SeqsUpTo(LandClassNames, MaxClasses) :
        /\ call' = "check_constraints"
        /\ args' = [allocate |-> allocate, actual |-> actual]
        /\ log' = check_constraints(allocate, actual)
        /\ ret' = Returned(<<>>)
        /\ steps' = <<>>

Call_get_steps ==
    /\ call = "none"
    /\ \E py \in Interpreters, columns \in SeqsUpTo(ColumnLabels, MaxCols),
          start_step \in StartSteps, end_step \in EndSteps :
        /\ call' = "get_steps"
        /\ args' = [py |-> py, columns |-> columns,
                    start_step |-> start_step, end_step |-> end_step]
        /\ log' = <<>>
        /\ ret' = Returned(get_steps(py, columns, start_step, end_step))
        /\ steps' = <<>>

Call_read_gcam_file ==
    /\ call = "none"
    /\ \E py \in Interpreters, gdf \in ProjectionTables,
          gcam_landclasses \in AllocationClasses,
          region_dict \in RegionDicts, agg_level \in AggLevels,
          start_yr \in StartYears, end_yr \in EndYears :
        \E r \in {read_gcam_file(py, gdf, gcam_landclasses, start_yr, end_yr, region_dict,
                                 agg_level, DefaultAreaFactor)} :
            /\ call' = "read_gcam_file"
            /\ args' = [py |-> py, gdf |-> gdf, gcam_landclasses |-> gcam_landclasses,
                        start_yr |-> start_yr, end_yr |-> end_yr,
                        region_dict |-> region_dict, agg_level |-> agg_level,
                        area_factor |-> DefaultAreaFactor]
            /\ log' = r.log
            /\ ret' = r.ret
            /\ steps' = <<>>

Call_read_base ==
    /\ call = "none"
    /\ \E df \in BaseTables, c \in BaseConfigs, spat_landclasses \in SpatialLandClasses :
        \E f \in {read_base(df, c, spat_landclasses)} :
            /\ call' = "read_base"
            /\ args' = [df |-> df, c |-> c, spat_landclasses |-> spat_landclasses]
            /\ log' = f.log
            /\ ret' = BaseOutcome(f)
            /\ steps' = f.steps

NextBase == Call_read_base

SpecBase == Init /\ [][NextBase]_vars

NextGcam == Call_read_gcam_file

SpecGcam == Init /\ [][NextGcam]_vars

NextConstraints == Call_check_constraints

NextSteps == Call_get_steps

SpecConstraints == Init /\ [][NextConstraints]_vars

SpecSteps == Init /\ [][NextSteps]_vars

Next ==
    \/ Call_check_constraints
    \/ Call_get_steps
    \/ Call_read_gcam_file
    \/ Call_read_base

Spec == Init /\ [][Next]_vars

----------------------------------------------------------------------------
(* Properties of read_gcam_file *)

GcamReturned == call = "read_gcam_file" /\ ret.status = "returned"

RawMetric == Column(args.gdf.rows, "metric_id")

RawRegion == Column(args.gdf.rows, "region")

\* C1: the sequential metric indices of the rows are exactly 1..N, N the
\* number of distinct raw metric identifiers of the table, and two rows'
\* indices compare as their raw identifiers do (so equal identifiers get equal
\* indices and distinct ones distinct indices).
C1_MetricIndexOrderBijection ==
    GcamReturned =>
        LET idx == ret.value.gcam_metric
        IN  /\ DOMAIN idx = DOMAIN RawMetric
            /\ SeqSet(idx) = 1..Cardinality(SeqSet(RawMetric))
            /\ \A i, j \in DOMAIN idx :
                  /\ (RawMetric[i] < RawMetric[j]) <=> (idx[i] < idx[j])
                  /\ (RawMetric[i] = RawMetric[j]) <=> (idx[i] = idx[j])

\* A table whose identifiers are neither sequential nor ascending by row.
C1_Witness ==
    /\ GcamReturned
    /\ Len(RawMetric) = 2
    /\ RawMetric[1] > RawMetric[2]
    /\ ret.value.gcam_metric = <<2, 1>>
    /\ ret.value.metric_id_array = RawMetric

OnlyRegionIsOne == SeqSet(RawRegion) = {IntV(1)}

\* C2: when the region column holds the one value 1, no exception comes from
\* the region lookup of line 232, every row gets region number 1 whenever the
\* call returns, and the outcome is the one the call has with any other
\* reference mapping, the empty one included.
C2_SingleRegionIgnoresReference ==
    (call = "read_gcam_file" /\ OnlyRegionIsOne) =>
        /\ ret.status = "raised" => ret.line # 232
        /\ ret.status = "returned" =>
              ret.value.gcam_regionnumber = [i \in DOMAIN RawRegion |-> 1]
        /\ \A d \in RegionDicts :
              read_gcam_file(args.py, args.gdf, args.gcam_landclasses, args.start_yr, args.end_yr,
                             d, args.agg_level, args.area_factor).ret = ret

\* The shortcut taken with a reference mapping that gives 1 another number.
C2_Witness ==
    /\ GcamReturned
    /\ OnlyRegionIsOne
    /\ Len(RawRegion) = 2
    /\ IntV(1) \in DOMAIN args.region_dict
    /\ ParseInt(args.py, args.region_dict[IntV(1)]).v # 1
    /\ ret.value.gcam_regionnumber = <<1, 1>>

AscendingInts(s) == \A i \in 1..(Len(s) - 1) : s[i] < s[i + 1]

AscendingRegions(s) == \A i \in 1..(Len(s) - 1) : RegionLess(s[i], s[i + 1])

RowsOfRegion(r) == {i \in DOMAIN RawRegion : ret.value.gcam_regionnumber[i] = r}

RegionsWithRows == SeqSet(ret.value.gcam_regionnumber)

\* The list of the metric indices of region number r: ascending, no duplicates
IsMetricListOf(l, r) ==
    /\ AscendingInts(l)
    /\ SeqSet(l) = {ret.value.gcam_metric[i] : i \in RowsOfRegion(r)}

\* The place, counted from 1, of region number r among the region numbers that
\* have rows
RankOfRegion(r) == 1 + Cardinality({q \in RegionsWithRows : q < r})

\* C5 as stated: at aggregation level 2 the returned lists hold an empty list
\* for region 30, and where region 11 has rows the empty list stands right
\* before the list of region 11.  Line 276 takes the place of the empty list
\* from the rank of the name 'Taiwan' in allreg, so rows of USA (1) and China
\* (11) put it before the list of region 1.
C5_PlaceholderBeforeParent ==
    (GcamReturned /\ args.agg_level = 2) =>
        LET aez == ret.value.allregaez
        IN  /\ \E k \in DOMAIN aez : aez[k] = <<>>
            /\ ParentNumber \in RegionsWithRows =>
                  /\ Len(aez) > RankOfRegion(ParentNumber)
                  /\ aez[RankOfRegion(ParentNumber)] = <<>>
                  /\ IsMetricListOf(aez[RankOfRegion(ParentNumber) + 1], ParentNumber)

\* C8 as stated: allreg and allregnumber are ascending without duplicates.
C8_RegionsSortedUnique ==
    GcamReturned =>
        /\ AscendingRegions(ret.value.allreg)
        /\ AscendingInts(ret.value.allregnumber)

\* C9 as stated: there are as many lists as region numbers, and the list at
\* the place of a region number that has rows is the ascending list of the
\* distinct metric indices of its rows.
C9_ListsAlignedWithRegionNumbers ==
    GcamReturned =>
        /\ Len(ret.value.allregaez) = Len(ret.value.allregnumber)
        /\ \A k \in DOMAIN ret.value.allregnumber :
              ret.value.allregnumber[k] \in RegionsWithRows =>
                  IsMetricListOf(ret.value.allregaez[k], ret.value.allregnumber[k])

----------------------------------------------------------------------------
(* Properties of read_base *)

BaseReturned == call = "read_base" /\ ret.status = "returned"

\* The labels of the table without regard to letter case, spelt out
SameLetters(a, b) ==
    /\ Len(a) = Len(b)
    /\ \A i \in DOMAIN a :
          \/ a[i] = b[i]
          \/ /\ Ord(a[i]) >= 65 /\ Ord(a[i]) <= 90 /\ Ord(b[i]) = Ord(a[i]) + 32
          \/ /\ Ord(b[i]) >= 65 /\ Ord(b[i]) <= 90 /\ Ord(a[i]) = Ord(b[i]) + 32

\* The table has a column that the lower-casing of the labels turns into name
TableHas(name) ==
    \E k \in DOMAIN args.df.columns :
        SameLetters(args.df.columns[k], name) /\ Lower(name) = name

TableColumn(name) ==
    args.df.data[CHOOSE k \in DOMAIN args.df.columns : SameLetters(args.df.columns[k], name)]

LandCoverMissing == \E k \in DOMAIN args.spat_landclasses : ~TableHas(args.spat_landclasses[k])

\* Everything read_base needs but the water column is there
BaseInputComplete ==
    /\ ~LandCoverMissing
    /\ \/ TableHas(C_latcoord) /\ TableHas(C_loncoord)
       \/ TableHas(C_latitude) /\ TableHas(C_longitude)
    /\ TableHas(args.c.pkey)
    /\ TableHas(C_region_id)
    /\ TableHas(MetricColumn(args.c))
    /\ args.c.agg_level \in {1, 2}

WarningsLogged == {i \in DOMAIN log : log[i].level = "warning"}

\* C6: without a water column a call that has all its other inputs returns,
\* the water array returned is zero for each of the ngrids rows of the table,
\* and one warning is logged; with a water column no warning is logged and
\* the water array returned is that column.
C6_WaterFallback ==
    call = "read_base" =>
        /\ (~TableHas(C_water) /\ BaseInputComplete) => ret.status = "returned"
        /\ (~TableHas(C_water) /\ ret.status = "returned") =>
              /\ ret.value.ngrids = args.df.nrows
              /\ ret.value.spat_water = [i \in 1..ret.value.ngrids |-> 0]
              /\ Cardinality(WarningsLogged) = 1
        /\ TableHas(C_water) =>
              /\ WarningsLogged = {}
              /\ ret.status = "returned" => ret.value.spat_water = TableColumn(C_water)

\* A table of two cells without water: two zeros and the warning.
C6_Witness ==
    /\ BaseReturned
    /\ ~TableHas(C_water)
    /\ args.df.nrows = 2
    /\ ret.value.spat_water = <<0, 0>>
    /\ Cardinality(WarningsLogged) = 1

\* C7 as stated: when a requested land-cover column is missing the call ends
\* in an exception at that step: the two error records are all that is
\* logged, and no line after 301 is begun.
C7_AbortsAtMissingLandCover ==
    (call = "read_base" /\ LandCoverMissing) =>
        /\ ret.status = "raised"
        /\ steps = <<301>>
        /\ Len(log) = 2
        /\ \A i \in DOMAIN log : log[i].level = "error"

IsGcamName(m) == SameLetters(m, C_gcam)

\* C10: for the model gcam, in any letter case, at level 2 the region array
\* has 11 where region_id is 30, has no 30, and is region_id elsewhere; for
\* another model at level 2 it is region_id; at level 1 it is 1 for every cell.
C10_RegionArray ==
    BaseReturned =>
        LET region == ret.value.spat_region
            region_id == TableColumn(C_region_id)
        IN  /\ DOMAIN region = 1..args.df.nrows
            /\ (args.c.agg_level = 2 /\ IsGcamName(args.c.model)) =>
                  \A i \in DOMAIN region :
                      /\ region[i] # TaiwanNumber
                      /\ region_id[i] = TaiwanNumber => region[i] = ParentNumber
                      /\ region_id[i] # TaiwanNumber => region[i] = region_id[i]
            /\ (args.c.agg_level = 2 /\ ~IsGcamName(args.c.model)) => region = region_id
            /\ args.c.agg_level = 1 => \A i \in DOMAIN region : region[i] = 1

\* The model name in capitals, a cell of region 30 and one of another region.
C10_Witness ==
    /\ BaseReturned
    /\ args.c.agg_level = 2
    /\ args.c.model # C_gcam
    /\ IsGcamName(args.c.model)
    /\ TableColumn(C_region_id) = <<TaiwanNumber, 5>>
    /\ ret.value.spat_region = <<ParentNumber, 5>>

----------------------------------------------------------------------------
(* Properties of _check_constraints *)

LoweredSet(names) == {Lower(names[i]) : i \in DOMAIN names}

WarningsListing(S) ==
    {i \in DOMAIN log : log[i].level = "warning" /\ SeqSet(log[i].arg) = S}

\* C3: _check_constraints returns normally for every pair of land-class
\* lists; it sends only warnings, exactly one for each non-empty one-sided
\* difference of the two lower-cased sets and none otherwise, so a warning is
\* sent if and only if the symmetric difference is non-empty.
C3_WarningPerOneSidedDifference ==
    call = "check_constraints" =>
        LET A == LoweredSet(args.allocate)
            B == LoweredSet(args.actual)
            sides == {D \in {A \ B, B \ A} : D # {}}
        IN  /\ ret.status = "returned"
            /\ \A i \in DOMAIN log : log[i].level = "warning"
            /\ Len(log) = Cardinality(sides)
            /\ \A D \in sides : Cardinality(WarningsListing(D)) = 1
            /\ (Len(log) > 0) <=> ((A \ B) \cup (B \ A) # {})

\* Two warnings, although one class of each list differs from one of the
\* other list in letter case only.
C3_Witness ==
    /\ call = "check_constraints"
    /\ Len(log) = 2
    /\ \E i \in DOMAIN args.allocate, j \in DOMAIN args.actual :
          /\ args.allocate[i] # args.actual[j]
          /\ Lower(args.allocate[i]) = Lower(args.actual[j])

----------------------------------------------------------------------------
(* Properties of _get_steps *)

SelectedColumns ==
    {i \in DOMAIN args.columns :
        /\ ParseInt(args.py, args.columns[i]).ok
        /\ args.start_step <= ParseInt(args.py, args.columns[i]).v
        /\ ParseInt(args.py, args.columns[i]).v <= args.end_step}

\* C4: _get_steps returns normally, and its result is the integer values of
\* the labels that int() of the interpreter parses as integers within
\* [start_step, end_step], in the labels' left-to-right order; in particular
\* the result is empty when start_step > end_step.
C4_StepsInColumnOrder ==
    call = "get_steps" =>
        /\ ret.status = "returned"
        /\ Len(ret.value) = Cardinality(SelectedColumns)
        /\ \A k \in DOMAIN ret.value :
              \E i \in SelectedColumns :
                  /\ Cardinality({j \in SelectedColumns : j < i}) = k - 1
                  /\ ret.value[k] = ParseInt(args.py, args.columns[i]).v
        /\ (args.start_step > args.end_step => ret.value = <<>>)

\* Two steps returned in descending order, as the columns have them, with a
\* label between them that does not parse, though another interpreter reads
\* it as an integer of the range.
C4_Witness ==
    /\ call = "get_steps"
    /\ Len(ret.value) = 2
    /\ ret.value[1] > ret.value[2]
    /\ Len(args.columns) = 3
    /\ ~ParseInt(args.py, args.columns[2]).ok
    /\ \E q \in Interpreters :
          /\ ParseInt(q, args.columns[2]).ok
          /\ args.start_step <= ParseInt(q, args.columns[2]).v
          /\ ParseInt(q, args.columns[2]).v <= args.end_step

====
